---- MODULE Spec2Model ----
(***************************************************************************)
(* Model of matrix-transcribe-bot: the process life cycle of main(),       *)
(* TranscriptBot.start() and the signal handler with TranscriptBot.stop()  *)
(* (specification SpecShutdown), and the per-message pipeline              *)
(* TranscriptBot.on_audio_message() with its helpers _download_media,      *)
(* _react, _remove_reaction and _reply.                                    *)
(*                                                                         *)
(* One pipeline instance runs per inbound event.  A pipeline is a          *)
(* coroutine: everything between two awaits runs atomically on the event   *)
(* loop, so there is one action per await point.  The action resolves the  *)
(* awaited call with one of the results the collaborator can produce and   *)
(* runs the handler up to its next await.                                  *)
(*                                                                         *)
(* The transport (nio AsyncClient) answers a call in one of three ways:    *)
(* a success response, an error response (an object without the           *)
(* event_id / body attribute, no exception), or a raised exception.  Only  *)
(* a success response changes the room.                                    *)
(***************************************************************************)
EXTENDS Integers, Sequences, FiniteSets, TLC

\* ------------------------------------------------------------- bounds
MaxTs == 1          \* server timestamps and the startup watermark: 0..MaxTs
MaxLen == 1         \* length of a transcription result, in characters

\* ---------------------------------------------------------- constants
None == "None"
BotUser == "@bot:example.com"
OtherUser == "@user:example.com"
Robot == "U+1F916"                  \* pending marker
Cross == "U+274C"                   \* failure marker
NoSpeech == <<"No speech detected.">>
Label == <<"Transcription:", "\n", "\n">>

\* The inbound audio/video events of one run, by event id.
Events == {"$event1", "$event2"}
Timestamps == 0..MaxTs
Chars == {" ", "a"}
Texts == UNION {[1..n -> Chars] : n \in 0..MaxLen}

\* Results of a transport call.
TransportResults == {"ok", "error", "raise"}
\* Bytes a successful download can deliver: the uploaded audio (ciphertext
\* matching the descriptor's hash when the attachment is encrypted) or bytes
\* that do not match the descriptor's hash.
Payloads == {"audio", "corrupt"}
\* Declared file names: absent, without extension, with extension.
Bodies == {None, "voice", "voice-message.ogg"}

VARIABLES
    startup_ms,         \* self._startup_ms
    main_pc,            \* position of main(): "login", "sync", "caught", "exited"
    callbacks,          \* event types with a registered callback
    client_open,        \* the transport session is open
    exit_status,        \* exit status of the process, read once main_pc = "exited"
    login_response,     \* what client.login returned, None before the call
    stop_task,          \* the bot.stop() task the signal handler creates:
                        \* "none", "scheduled", "done"
    pc,                 \* per event: position of its on_audio_message coroutine
    event,              \* per event: the delivered event's fields (once delivered)
    reaction_event_id,  \* per event: local variable of on_audio_message
    audio_path,         \* per event: local variable of on_audio_message
    text,               \* per event: local variable of on_audio_message (once set)
    reactions,          \* reactions attached in the room
    messages,           \* m.room.message events in the room
    files,              \* temporary files that exist on local storage
    calls               \* per event: the transport, backend and file calls made,
                        \* in order, with results, and the exceptions raised

vars == <<startup_ms, main_pc, callbacks, client_open, exit_status,
          login_response, stop_task, pc, event, reaction_event_id, audio_path, text,
          reactions, messages, files, calls>>

mainVars == <<main_pc, callbacks, client_open, exit_status, login_response,
              stop_task>>
localVars == <<reaction_event_id, audio_path, text>>
roomVars == <<reactions, messages>>

\* ------------------------------------------------------------ helpers

\* The event id the homeserver assigns to a reaction: unique per reaction.
ReactionId(e, key) == "$reaction:" \o e \o ":" \o key

\* os.path.splitext(body)[1] for the file names the model uses.
splitext(body) ==
    CASE body \in {"audio.ogg", "voice-message.ogg"} -> ".ogg"
      [] body = "voice.mp3" -> ".mp3"
      [] OTHER -> ""

\* content.get("body", "audio.ogg"), then splitext(...)[1] or ".ogg".
Suffix(body) ==
    LET ext == splitext(IF body = None THEN "audio.ogg" ELSE body)
    IN  IF ext = "" THEN ".ogg" ELSE ext

\* tempfile.NamedTemporaryFile(delete=False, suffix=suffix).name: a new name
\* for every invocation.
TempName(e, suffix) == "/tmp/tmp" \o e \o suffix

\* str.strip() on a sequence of characters.
RECURSIVE lstrip(_)
lstrip(s) == IF s # <<>> /\ Head(s) = " " THEN lstrip(Tail(s)) ELSE s
RECURSIVE rstrip(_)
rstrip(s) ==
    IF s # <<>> /\ s[Len(s)] = " " THEN rstrip(SubSeq(s, 1, Len(s) - 1)) ELSE s
strip(s) == rstrip(lstrip(s))

\* The reply without its label: the transcribed text itself.
ReplyBodyBare(t) == IF t = <<>> \/ strip(t) = <<>> THEN NoSpeech ELSE t

\* The body on_audio_message passes to _reply.
ReplyBody(t) == IF t = <<>> \/ strip(t) = <<>> THEN NoSpeech ELSE Label \o t

\* The filter without its test of the sender.
IgnoredOldOnly(ev) == ev.server_timestamp < startup_ms

\* The filter without its test of the timestamp.
IgnoredOwnOnly(ev) == ev.sender = BotUser

\* on_audio_message's filter: own messages and messages from before startup.
Ignored(ev) == ev.sender = BotUser \/ ev.server_timestamp < startup_ms

\* _react's return value: response.event_id when the response has one.
ReactResult(e, key, res) == IF res = "ok" THEN ReactionId(e, key) ELSE None

\* The room after room_send of an m.reaction answered with res.
ReactionsAfterSend(e, key, res) ==
    IF res = "ok"
    THEN reactions \cup {[id |-> ReactionId(e, key), target |-> e, key |-> key]}
    ELSE reactions

\* The room after room_redact of rid answered with res.
ReactionsAfterRedact(rid, res) ==
    IF res = "ok" THEN {r \in reactions : r.id # rid} ELSE reactions

\* The room after room_send of an m.room.message answered with res.
MessagesAfterSend(e, body, res) ==
    IF res = "ok"
    THEN messages \cup {[body |-> body, in_reply_to |-> e]}
    ELSE messages

\* _remove_reaction without its test: the redact call is always made.
RemoveReactionUnguarded(rid, awaiting, skipped) == awaiting

\* _remove_reaction with its test inverted.
RemoveReactionInverted(rid, awaiting, skipped) ==
    IF rid = None THEN awaiting ELSE skipped

\* _remove_reaction: the redact call is awaited only for a recorded identity;
\* otherwise the caller continues at once.
RemoveReactionPc(rid, awaiting, skipped) ==
    IF rid # None THEN awaiting ELSE skipped

\* The except clause without its _remove_reaction call.
ExceptPcNoRedact(rid) == "exc_react"

\* The except clause of on_audio_message: _remove_reaction, then _react.
ExceptPc(rid) == RemoveReactionPc(rid, "exc_redact", "exc_react")

\* The failure reaction posted whatever the reply's result, as a finally
\* clause in place of the except clause would.
ReplyPcFinally(rid, res) == IF rid # None THEN "exc_redact" ELSE "exc_react"

\* Where on_audio_message continues once room_send of the reply is answered.
ReplyPc(rid, res) == IF res = "raise" THEN ExceptPc(rid) ELSE "done"

\* Exit status of the process for the exception that left bot.start():
\* main() swallows KeyboardInterrupt and SystemExit and returns normally;
\* any other exception leaves main() after the finally clause.
ExitStatus(exc) ==
    IF exc \in {None, "KeyboardInterrupt", "SystemExit"} THEN 0 ELSE 1

Log(e, entry) == [calls EXCEPT ![e] = Append(@, entry)]

\* The transcription called directly from the coroutine, on the thread of
\* the event loop.
TranscribeInLoop == "loop"

\* Lines 103-106: where transcriber.transcribe runs.  run_in_executor(None,
\* ...) hands the call to a worker thread of the default executor and the
\* coroutine awaits the future.
TranscribeContext == "executor"

\* The thread of the event loop is held by e's pipeline: a blocking call made
\* on that thread holds it until the call returns.
OccupiesLoop(e) == pc[e] = "transcribe" /\ TranscribeContext # "executor"

\* The event loop can run a step of e's pipeline: no other pipeline holds its
\* thread.
LoopFree(e) == \A o \in Events \ {e} : ~OccupiesLoop(o)

\* --------------------------------------------------------------- Init
Init ==
    /\ startup_ms \in Timestamps
    /\ main_pc = "login"
    /\ callbacks = {}
    /\ client_open = TRUE
    /\ exit_status = 0
    /\ login_response = None
    /\ stop_task = "none"
    /\ pc = [e \in Events |-> "idle"]
    /\ event = [e \in Events |-> [sender |-> None, server_timestamp |-> 0]]
    /\ reaction_event_id = [e \in Events |-> None]
    /\ audio_path = [e \in Events |-> None]
    /\ text = [e \in Events |-> <<>>]
    /\ reactions = {}
    /\ messages = {}
    /\ files = {}
    /\ calls = [e \in Events |-> <<>>]

\* ------------------------------------------------- main() and start()

\* start(): client.login answered with a LoginResponse; the callbacks are
\* registered and sync_forever starts.
LoginOk ==
    /\ main_pc = "login"
    /\ login_response' = "LoginResponse"
    /\ main_pc' = "sync"
    /\ callbacks' = {"RoomMessageAudio", "RoomMessageVideo", "InviteMemberEvent"}
    /\ UNCHANGED <<startup_ms, client_open, exit_status, stop_task, pc, event,
                   localVars, roomVars, files, calls>>

\* start(): client.login answered with anything else; SystemExit(1) is
\* raised before any callback is registered and reaches the try statement
\* of main().
LoginFailed ==
    /\ main_pc = "login"
    /\ login_response' = "LoginError"
    /\ main_pc' = "caught"
    /\ UNCHANGED <<startup_ms, callbacks, client_open, exit_status, stop_task,
                   pc, event, localVars, roomVars, files, calls>>

\* main(): except (KeyboardInterrupt, SystemExit): pass; finally: bot.stop(),
\* loop.close(); main() returns.
MainFinally ==
    /\ main_pc = "caught"
    /\ main_pc' = "exited"
    /\ client_open' = FALSE
    /\ exit_status' = ExitStatus("SystemExit")
    /\ UNCHANGED <<startup_ms, callbacks, login_response, stop_task, pc, event,
                   localVars, roomVars, files, calls>>

\* ------------------------------------------------- on_audio_message

\* The sync loop delivers an audio or video event: the handler runs its two
\* filters and, for an accepted event, awaits _react with the robot emoji.
Deliver(e) ==
    /\ main_pc = "sync"
    /\ pc[e] = "idle"
    /\ \E sender \in {BotUser, OtherUser}, ts \in Timestamps :
        LET ev == [sender |-> sender, server_timestamp |-> ts]
        IN  /\ event' = [event EXCEPT ![e] = ev]
            /\ pc' = [pc EXCEPT ![e] = IF Ignored(ev) THEN "done" ELSE "react"]
    /\ UNCHANGED <<startup_ms, mainVars, localVars, roomVars, files, calls>>

\* Line 94: room_send of the pending reaction is answered.  The call is
\* outside the try statement: an exception leaves the handler.  Otherwise
\* _download_media starts and awaits client.download.
ReactPending(e) ==
    /\ pc[e] = "react"
    /\ \E res \in TransportResults :
        /\ calls' = Log(e, <<"react", Robot, res>>)
        /\ reactions' = ReactionsAfterSend(e, Robot, res)
        /\ IF res = "raise"
           THEN /\ pc' = [pc EXCEPT ![e] = "raised"]
                /\ UNCHANGED reaction_event_id
           ELSE /\ pc' = [pc EXCEPT ![e] = "download"]
                /\ reaction_event_id' =
                       [reaction_event_id EXCEPT ![e] = ReactResult(e, Robot, res)]
    /\ UNCHANGED <<startup_ms, mainVars, event, audio_path, text, messages,
                   files>>

\* Lines 126-155 and 97-106: client.download is answered and the handler
\* runs up to its next await.  The event's content (encrypted-file
\* descriptor or plain url, declared file name) is read here.
\*   - a response without body: _download_media returns None and the
\*     handler removes the reaction and returns;
\*   - an exception: the except clause is entered;
\*   - a response with body: decrypt_attachment for an encrypted file (it
\*     raises when the bytes do not match the descriptor's hash), then the
\*     temporary file is created, written and closed, and the transcription
\*     is handed to the executor.  tmp.write can raise (no space left on
\*     device); the file exists by then.
_download_media(e) ==
    /\ pc[e] = "download"
    /\ \E res \in TransportResults, payload \in Payloads,
          encrypted \in BOOLEAN, body \in Bodies, wr \in {"ok", "raise"} :
        LET path == TempName(e, Suffix(body))
            rid == reaction_event_id[e]
            decrypt_raises == encrypted /\ payload = "corrupt"
            sent == <<"download", None, res>>
        IN  CASE res = "error" ->
                   /\ calls' = Log(e, sent)
                   /\ pc' = [pc EXCEPT ![e] =
                          RemoveReactionPc(rid, "redact_nofile", "done")]
                   /\ UNCHANGED <<files, audio_path>>
              [] res = "raise" ->
                   /\ calls' = Log(e, sent)
                   /\ pc' = [pc EXCEPT ![e] = ExceptPc(rid)]
                   /\ UNCHANGED <<files, audio_path>>
              [] res = "ok" /\ decrypt_raises ->
                   /\ calls' = [calls EXCEPT ![e] =
                          @ \o <<sent, <<"decrypt", payload, "raise">> >>]
                   /\ pc' = [pc EXCEPT ![e] = ExceptPc(rid)]
                   /\ UNCHANGED <<files, audio_path>>
              [] res = "ok" /\ ~decrypt_raises ->
                   /\ files' = files \cup {path}
                   /\ calls' = [calls EXCEPT ![e] =
                          @ \o <<sent, <<"write", path, wr>> >>]
                   /\ IF wr = "ok"
                      THEN /\ audio_path' = [audio_path EXCEPT ![e] = path]
                           /\ pc' = [pc EXCEPT ![e] = "transcribe"]
                      ELSE /\ UNCHANGED audio_path
                           /\ pc' = [pc EXCEPT ![e] = ExceptPc(rid)]
    /\ UNCHANGED <<startup_ms, mainVars, event, reaction_event_id, text,
                   roomVars>>

\* Lines 104-110: the executor's transcribe call returns a text or raises;
\* the finally clause unlinks the file; then the reaction is removed, or
\* the except clause is entered.
Transcribe(e) ==
    /\ pc[e] = "transcribe"
    /\ files' = files \ {audio_path[e]}
    /\ \/ \E t \in Texts :
            /\ text' = [text EXCEPT ![e] = t]
            /\ calls' = [calls EXCEPT ![e] =
                   @ \o << <<"transcribe", audio_path[e], "ok">>,
                           <<"unlink", audio_path[e], "ok">> >>]
            /\ pc' = [pc EXCEPT ![e] =
                   RemoveReactionPc(reaction_event_id[e], "redact", "reply")]
       \/ /\ UNCHANGED text
          /\ calls' = [calls EXCEPT ![e] =
                 @ \o << <<"transcribe", audio_path[e], "raise">>,
                         <<"unlink", audio_path[e], "ok">> >>]
          /\ pc' = [pc EXCEPT ![e] = ExceptPc(reaction_event_id[e])]
    /\ UNCHANGED <<startup_ms, mainVars, event, reaction_event_id, audio_path,
                   roomVars>>

\* Line 110: room_redact of the pending reaction is answered; the handler
\* goes on to the reply, or to the except clause when the call raised.
Redact(e) ==
    /\ pc[e] = "redact"
    /\ \E res \in TransportResults :
        /\ calls' = Log(e, <<"redact", reaction_event_id[e], res>>)
        /\ reactions' = ReactionsAfterRedact(reaction_event_id[e], res)
        /\ pc' = [pc EXCEPT ![e] =
               IF res = "raise" THEN ExceptPc(reaction_event_id[e]) ELSE "reply"]
    /\ UNCHANGED <<startup_ms, mainVars, event, localVars, messages, files>>

\* Lines 112-119: room_send of the reply is answered.
Reply(e) ==
    /\ pc[e] = "reply"
    /\ \E res \in TransportResults :
        /\ calls' = Log(e, <<"reply", ReplyBody(text[e]), res>>)
        /\ messages' = MessagesAfterSend(e, ReplyBody(text[e]), res)
        /\ pc' = [pc EXCEPT ![e] = ReplyPc(reaction_event_id[e], res)]
    /\ UNCHANGED <<startup_ms, mainVars, event, localVars, reactions, files>>

\* Lines 99-100: room_redact on the fetch-failure path is answered; the
\* handler returns, or enters the except clause when the call raised.
RedactNoFile(e) ==
    /\ pc[e] = "redact_nofile"
    /\ \E res \in TransportResults :
        /\ calls' = Log(e, <<"redact", reaction_event_id[e], res>>)
        /\ reactions' = ReactionsAfterRedact(reaction_event_id[e], res)
        /\ pc' = [pc EXCEPT ![e] =
               IF res = "raise" THEN ExceptPc(reaction_event_id[e]) ELSE "done"]
    /\ UNCHANGED <<startup_ms, mainVars, event, localVars, messages, files>>

\* Line 123: room_redact inside the except clause is answered; an exception
\* raised here leaves the handler.
ExceptRedact(e) ==
    /\ pc[e] = "exc_redact"
    /\ \E res \in TransportResults :
        /\ calls' = Log(e, <<"redact", reaction_event_id[e], res>>)
        /\ reactions' = ReactionsAfterRedact(reaction_event_id[e], res)
        /\ pc' = [pc EXCEPT ![e] = IF res = "raise" THEN "raised" ELSE "exc_react"]
    /\ UNCHANGED <<startup_ms, mainVars, event, localVars, messages, files>>

\* Line 124: room_send of the failure reaction is answered; an exception
\* raised here leaves the handler.
ExceptReact(e) ==
    /\ pc[e] = "exc_react"
    /\ \E res \in TransportResults :
        /\ calls' = Log(e, <<"react", Cross, res>>)
        /\ reactions' = ReactionsAfterSend(e, Cross, res)
        /\ pc' = [pc EXCEPT ![e] = IF res = "raise" THEN "raised" ELSE "done"]
    /\ UNCHANGED <<startup_ms, mainVars, event, localVars, messages, files>>

\* One step of the coroutine, run by the event loop of
\* run_until_complete(bot.start()) when its thread is free.
on_audio_message(e) ==
    /\ main_pc = "sync"
    /\ LoopFree(e)
    /\ \/ Deliver(e)
       \/ ReactPending(e)
       \/ _download_media(e)
       \/ Transcribe(e)
       \/ Redact(e)
       \/ Reply(e)
       \/ RedactNoFile(e)
       \/ ExceptRedact(e)
       \/ ExceptReact(e)

Next ==
    \/ LoginOk
    \/ LoginFailed
    \/ MainFinally
    \/ \E e \in Events : on_audio_message(e)

Spec == Init /\ [][Next]_vars

\* ---------------------------------------------------------- shutdown

\* main.py 56-61: SIGINT or SIGTERM arrives while
\* run_until_complete(bot.start()) runs.  The handler logs and creates a
\* task for bot.stop(); it does nothing else.
shutdown ==
    /\ main_pc = "sync"
    /\ stop_task = "none"
    /\ stop_task' = "scheduled"
    /\ UNCHANGED <<startup_ms, main_pc, callbacks, client_open, exit_status,
                   login_response, pc, event, localVars, roomVars, files,
                   calls>>

\* bot.py 61-62: the loop runs the task: client.close().  bot.start() is
\* not cancelled and the loop is not stopped: main() stays in
\* run_until_complete and the callbacks stay registered.
stop ==
    /\ stop_task = "scheduled"
    /\ main_pc # "exited"
    /\ stop_task' = "done"
    /\ client_open' = FALSE
    /\ UNCHANGED <<startup_ms, main_pc, callbacks, exit_status, login_response,
                   pc, event, localVars, roomVars, files, calls>>

\* bot.py 59 and main.py 63-66: what sync_forever does on a closed session
\* is the client library's choice.  It can keep running (no step), return, or
\* raise; a return or a SystemExit takes main() to its finally clause, any
\* other exception passes the except clause.
SyncForeverEnds ==
    /\ main_pc = "sync"
    /\ ~client_open
    /\ \E exc \in {None, "Exception"} :
        main_pc' = IF ExitStatus(exc) = 0 THEN "caught" ELSE "uncaught"
    /\ UNCHANGED <<startup_ms, callbacks, client_open, exit_status,
                   login_response, stop_task, pc, event, localVars, roomVars,
                   files, calls>>

\* main.py 67-70 for an exception the except clause does not name: the
\* finally clause runs bot.stop() and closes the loop, then the exception
\* leaves main().
MainFinallyUncaught ==
    /\ main_pc = "uncaught"
    /\ main_pc' = "exited"
    /\ client_open' = FALSE
    /\ exit_status' = ExitStatus("Exception")
    /\ UNCHANGED <<startup_ms, callbacks, login_response, stop_task, pc, event,
                   localVars, roomVars, files, calls>>

\* A step of e's coroutine after its delivery.
PipelineStep(e) ==
    /\ pc[e] # "idle"
    /\ on_audio_message(e)

NextShutdown ==
    \/ Next
    \/ shutdown
    \/ stop
    \/ SyncForeverEnds
    \/ MainFinallyUncaught

\* The loop runs every task that is ready: the stop task, the steps of the
\* pipelines and main()'s finally clause are taken once they can be.  The
\* arrival of events and of signals, and the end of sync_forever, are not
\* the program's to decide.
SpecShutdown ==
    /\ Init
    /\ [][NextShutdown]_vars
    /\ WF_vars(stop)
    /\ WF_vars(MainFinally)
    /\ WF_vars(MainFinallyUncaught)
    /\ \A e \in Events : WF_vars(PipelineStep(e))

\* ------------------------------------------------------------ claims

\* What the claims speak about, read off the state.
Accepted(e) == pc[e] # "idle" /\ ~Ignored(event[e])
Finished(e) == pc[e] \in {"done", "raised"}
Count(e, op, arg, results) ==
    Cardinality({i \in DOMAIN calls[e] :
        /\ calls[e][i][1] = op
        /\ arg # None => calls[e][i][2] = arg
        /\ calls[e][i][3] \in results})
Made(e, op, arg) == Count(e, op, arg, TransportResults)
Attached(e, key) == \E r \in reactions : r.target = e /\ r.key = key
RedactArgs(e) ==
    {calls[e][i][2] : i \in {j \in DOMAIN calls[e] : calls[e][j][1] = "redact"}}
DownloadFailed(e) == Count(e, "download", None, {"error"}) > 0
DecryptFailed(e) == Count(e, "decrypt", None, {"raise"}) > 0
TranscribeRaised(e) == Count(e, "transcribe", None, {"raise"}) > 0
TranscriptReplies(e) ==
    Cardinality({i \in DOMAIN calls[e] :
        /\ calls[e][i][1] = "reply"
        /\ calls[e][i][2] # NoSpeech
        /\ calls[e][i][3] = "ok"})
NoSpeechReplies(e) == Count(e, "reply", NoSpeech, {"ok"})
FailureMarkers(e) == Count(e, "react", Cross, {"ok"})

\* C1: once on_audio_message has finished for an accepted event, on any
\* path, the pending reaction posted for that event is no longer attached.
C1_NoMarkerLeft ==
    \A e \in Events : (Accepted(e) /\ Finished(e)) => ~Attached(e, Robot)

\* C2: the pending marker and the failure marker are never attached to the
\* same event at the same time.
C2_AtMostOneMarker ==
    \A e \in Events : Cardinality({r \in reactions : r.target = e}) <= 1

\* C3: the temporary file created for an event does not exist once
\* on_audio_message has finished, on every exit path.
C3_TempFileDeleted ==
    \A e \in Events :
        Finished(e) => files \cap {TempName(e, Suffix(b)) : b \in Bodies} = {}

\* C4: when the download has no retrievable content or decryption fails,
\* the clear of the pending marker is made, no reply is sent and no failure
\* marker is posted: a decryption failure is handled like a download failure.
C4_DecryptLikeDownloadFailure ==
    \A e \in Events :
        (Finished(e) /\ (DownloadFailed(e) \/ DecryptFailed(e))) =>
            /\ reaction_event_id[e] # None => Made(e, "redact", None) = 1
            /\ Made(e, "reply", None) = 0
            /\ Made(e, "react", Cross) = 0

\* C5: no failing transport call makes on_audio_message terminate with an
\* unhandled exception.
C5_NoUnhandledException == \A e \in Events : pc[e] # "raised"

C7_LoginFailureExitsNonZero ==
    (login_response = "LoginError" /\ main_pc = "exited") =>
        /\ exit_status # 0
        /\ callbacks = {}

\* C8 as stated: for an accepted event whose download, transcription and
\* reply all succeed, the pending marker is posted exactly once and redacted
\* exactly once with the identity of that post, and no failure marker is
\* posted.
C8_SuccessOnePostOneRedact ==
    \A e \in Events :
        (/\ Accepted(e) /\ pc[e] = "done"
         /\ Count(e, "download", None, {"ok"}) = 1
         /\ Count(e, "transcribe", None, {"ok"}) = 1
         /\ Count(e, "reply", None, {"ok"}) = 1) =>
            /\ Made(e, "react", Robot) = 1
            /\ Made(e, "redact", None) = 1
            /\ RedactArgs(e) = {ReactionId(e, Robot)}
            /\ Made(e, "react", Cross) = 0

\* C8 amended: the same, for the events whose pending post also returned an
\* identity.
C8_SuccessWithIdentity ==
    \A e \in Events :
        (/\ Accepted(e) /\ pc[e] = "done"
         /\ Count(e, "react", Robot, {"ok"}) = 1
         /\ Count(e, "download", None, {"ok"}) = 1
         /\ Count(e, "transcribe", None, {"ok"}) = 1
         /\ Count(e, "reply", None, {"ok"}) = 1) =>
            /\ Made(e, "react", Robot) = 1
            /\ Made(e, "redact", None) = 1
            /\ RedactArgs(e) = {ReactionId(e, Robot)}
            /\ Made(e, "react", Cross) = 0

\* C8 witness: an event has completed with the pending post, the download,
\* the transcription and the reply all successful.
C8_Witness ==
    \E e \in Events :
        /\ Accepted(e) /\ pc[e] = "done"
        /\ Count(e, "react", Robot, {"ok"}) = 1
        /\ Count(e, "download", None, {"ok"}) = 1
        /\ Count(e, "transcribe", None, {"ok"}) = 1
        /\ Count(e, "reply", None, {"ok"}) = 1
        /\ Made(e, "redact", None) = 1

\* C9: for an accepted event whose transcription call raises, the recorded
\* pending marker is redacted, exactly one failure marker is posted and no
\* reply is sent.
C9_TranscriptionFailure ==
    \A e \in Events :
        (Accepted(e) /\ Finished(e) /\ TranscribeRaised(e)) =>
            /\ reaction_event_id[e] # None => Made(e, "redact", None) >= 1
            /\ Made(e, "react", Cross) = 1
            /\ Made(e, "reply", None) = 0

\* C10: when the download returns a response without content (the pending
\* post having returned an identity), the pipeline posts one pending
\* reaction, makes one redact call, posts no failure reaction, sends no
\* reply and never calls the transcription backend.
C10_DownloadFailureScenario ==
    \A e \in Events :
        (/\ Finished(e) /\ DownloadFailed(e)
         /\ Count(e, "react", Robot, {"ok"}) = 1) =>
            /\ Made(e, "react", Robot) = 1
            /\ Made(e, "redact", None) = 1
            /\ Made(e, "react", Cross) = 0
            /\ Made(e, "reply", None) = 0
            /\ Made(e, "transcribe", None) = 0

\* More of what the claims speak about.
Delivered(e) == pc[e] # "idle"
NonBlank(t) == \E i \in DOMAIN t : t[i] # " "
TranscribeReturned(e) == Count(e, "transcribe", None, {"ok"}) = 1
Index(e, op, arg) ==
    {i \in DOMAIN calls[e] :
        calls[e][i][1] = op /\ (arg # None => calls[e][i][2] = arg)}
ReplyBodies(e) == {calls[e][i][2] : i \in Index(e, "reply", None)}
RepliesTo(e) == {m \in messages : m.in_reply_to = e}
\* Every call of the first kind is made after some call of the second kind.
Preceded(e, later, earlier) == \A j \in later : \E i \in earlier : i < j

\* C11: for an event sent by the bot itself, whatever its timestamp,
\* on_audio_message makes no send, reaction, download or redact call.
C11_OwnMessagesIgnored ==
    \A e \in Events :
        (Delivered(e) /\ event[e].sender = BotUser) =>
            /\ calls[e] = <<>>
            /\ pc[e] = "done"
            /\ ~(\E r \in reactions : r.target = e)
            /\ RepliesTo(e) = {}

\* C11 witness: an event of the bot itself, not older than the watermark,
\* has been handled.
C11_Witness ==
    \E e \in Events :
        /\ pc[e] = "done"
        /\ event[e].sender = BotUser
        /\ event[e].server_timestamp >= startup_ms

\* C12: for an event whose timestamp is strictly less than the startup
\* watermark, on_audio_message makes no send, reaction, download or redact
\* call, and no step changes the watermark.
C12_OldMessagesIgnored ==
    [][/\ startup_ms' = startup_ms
       /\ \A e \in Events :
            (pc'[e] # "idle" /\ event'[e].server_timestamp < startup_ms') =>
                /\ calls'[e] = <<>>
                /\ pc'[e] = "done"
                /\ ~(\E r \in reactions' : r.target = e)]_vars

\* C12 witness: an event of another user, older than the watermark, has
\* been handled.
C12_Witness ==
    \E e \in Events :
        /\ pc[e] = "done"
        /\ event[e].sender = OtherUser
        /\ event[e].server_timestamp < startup_ms

\* C13: for an accepted event whose transcription result is a non-blank
\* text T, exactly one reply is sent, with body "Transcription:\n\n" + T,
\* and it references the original event.
C13_TranscriptReply ==
    \A e \in Events :
        (Accepted(e) /\ Finished(e) /\ TranscribeReturned(e)
         /\ NonBlank(text[e])) =>
            /\ Made(e, "reply", None) = 1
            /\ ReplyBodies(e) = {Label \o text[e]}
            /\ \A m \in RepliesTo(e) : m.body = Label \o text[e]

C15_NoSpeechReply ==
    \A e \in Events :
        (Accepted(e) /\ Finished(e) /\ TranscribeReturned(e)
         /\ ~NonBlank(text[e])) =>
            /\ Made(e, "reply", None) = 1
            /\ ReplyBodies(e) = {NoSpeech}
            /\ Made(e, "react", Cross) = 0

\* C16: once a signal has been received while the bot is running, the
\* process eventually closes the transport session and exits: the loop run
\* started by main() ends.
C16_SignalLeadsToExit ==
    (stop_task # "none") ~> (~client_open /\ main_pc = "exited")

C18_StageOrder ==
    \A e \in Events :
        LET post == Index(e, "react", Robot)
            down == Index(e, "download", None)
            trans == Index(e, "transcribe", None)
            unlink == Index(e, "unlink", None)
            redact == Index(e, "redact", None)
            reply == Index(e, "reply", None)
            fail == Index(e, "react", Cross)
        IN  /\ Preceded(e, down, post)
            /\ \A i \in post : \A j \in down : i < j
            /\ \A i \in down : \A j \in trans : i < j
            /\ \A i \in trans : i + 1 \in unlink
            /\ \A j \in unlink : j - 1 \in trans
            /\ \A i \in unlink : \A j \in redact \cup reply \cup fail : i < j
            /\ reaction_event_id[e] # None =>
                   Preceded(e, reply, redact) /\ Preceded(e, fail, redact)
            /\ \A i \in reply : \A j \in fail : i < j

\* C18 witness: a pipeline whose transcription raised has finished with the
\* file deleted, the pending marker redacted and the failure marker posted.
C18_Witness ==
    \E e \in Events :
        /\ pc[e] = "done"
        /\ TranscribeRaised(e)
        /\ Count(e, "redact", None, {"ok"}) = 1
        /\ FailureMarkers(e) = 1

\* C19: the redact call is never made with an empty identity: when the
\* pending post returned no event id every clear step skips the call, and
\* the reply or the failure marker still follows.
C19_NoRedactWithoutIdentity ==
    \A e \in Events :
        /\ None \notin RedactArgs(e)
        /\ (Finished(e) /\ Count(e, "react", Robot, {"error"}) = 1) =>
            /\ Made(e, "redact", None) = 0
            /\ TranscribeReturned(e) => Made(e, "reply", None) = 1
            /\ DownloadFailed(e) =>
                   Made(e, "reply", None) = 0 /\ Made(e, "react", Cross) = 0
            /\ (\E i \in DOMAIN calls[e] : calls[e][i][3] = "raise") =>
                   Made(e, "react", Cross) = 1

\* C19 witness: a pipeline whose pending post returned no event id has
\* replied without a redact call.
C19_Witness ==
    \E e \in Events :
        /\ pc[e] = "done"
        /\ Count(e, "react", Robot, {"error"}) = 1
        /\ Count(e, "reply", None, {"ok"}) = 1
        /\ Made(e, "redact", None) = 0

\* C20: in one run of on_audio_message the redact call for the pending
\* marker is made at most once, on every path.
C20_RedactAtMostOnce ==
    \A e \in Events : Made(e, "redact", None) <= 1

====
